---- MODULE Spec2Model ----
(***************************************************************************)
(* FujiDrop: the camera-facing upload pipeline (create-asset, chunk        *)
(* upload, stitching) and the Google Photos upload sweep, as a state       *)
(* machine over the relational store and the images directory.            *)
(*                                                                         *)
(* Scheduling: one Sanic process, cooperative tasks.  A handler runs       *)
(* without interruption between two awaits, so every action below is the   *)
(* code between two suspension points of one task.                         *)
(***************************************************************************)
EXTENDS Integers, Sequences, FiniteSets, TLC

\* ------------------------------------------------------------------ bounds
\* Largest part count a create-asset request declares.
MaxParts == 2
\* create-asset requests served (one uuid4 is drawn per request).
MaxCreates == 2
\* Media items Google Photos creates for one file name.
MaxMedia == 2
\* Device-code requests served.
MaxDevices == 2
\* Results of ws.recv a WebSocket session handles.
MaxFrames == 2
\* Albums the operator has create_album make.
MaxAlbums == 2
\* Access tokens Google hands out to get_credentials.
MaxTokens == 3

\* ------------------------------------------------------- program constants
\* AssetStatus (NEW is a reserved word of TLA+, hence the prefix).
ST_NEW == 0
ST_AVAILABLE == 1
ST_UPLOADED == 2
ST_FAILED == 3
\* random.randrange(10**5, 10**6): the first value and the end of the range.
RAND_START == 100000
RAND_STOP == 1000000

\* ------------------------------------------------------------ input domains
Roll == <<"DSCF0001.JPG", "DSCF0002.JPG", "DSCF0003.JPG">>
Filenames == {Roll[i] : i \in DOMAIN Roll}
\* The picture whose whole traffic Spec follows.
Shot == Roll[1]
\* The three types the handler knows, one it does not, and the empty string.
Filetypes == {"image/jpeg", "image/x-fujifilm-raf", "video/mp4",
              "video/quicktime", ""}
FileSizes == {1, 2}
BodyLens == {1}
PartCounts == 0..MaxParts
UploadSlots == 1..2
SweepSlots == 1..2
NoReq == <<>>

Idle == [pc |-> "idle"]

\* No WebSocket connection has been made.
NoSocket == [pc |-> "none"]

\* No upload_photo has reached Google Photos yet.
NoPhoto == [sent |-> <<>>, raised |-> "", returned |-> <<>>]

\* str(uuid.uuid4()): the n-th identifier drawn, in its text form.
UuidStr(n) == <<"uuid4", n>>
Uuids == {UuidStr(n) : n \in 0..MaxCreates}

VARIABLES
    assets,      \* table asset: set of rows
    assetParts,  \* table assetpart: set of rows
    files,       \* images directory: existing path -> content
    uuids,       \* uuid4 values drawn so far
    media,       \* Google Photos: media items created per file name
    uploads,     \* chunk uploads suspended on request.stream.read()
    sweeps,      \* upload sweeps suspended on upload_photo's HTTP call
    last,        \* the step taken last: its request and its outcome
    devices,     \* table device: set of rows
    socket,      \* the /devices/websocket session: handler and connection
    albums,      \* table album: set of rows
    token_file,  \* the saved Google token file: absent, or its credentials
    photo        \* the latest upload_photo that reached Google Photos

vars == <<assets, assetParts, files, uuids, media, uploads, sweeps, last,
          devices, socket, albums, token_file, photo>>

\* ------------------------------------------------------------------ paths
\* Asset.path is <images>/<filename>; AssetPart.path is that plus ".<part_no>".
\* Part 0 stands for the stitched file itself.
AssetPath(filename) == <<filename, 0>>
PartPath(filename, part_no) == <<filename, part_no>>

Exists(fs, path) == path \in DOMAIN fs

\* open(path, "wb") and a write of content: creates or replaces the file.
WriteFile(fs, path, content) ==
    [q \in DOMAIN fs \cup {path} |-> IF q = path THEN content ELSE fs[q]]

\* ------------------------------------------------------------ store access
MaxOf(S) == IF S = {} THEN 0 ELSE CHOOSE m \in S : \A x \in S : x <= m

\* AutoField: SQLite hands out max(rowid) + 1.
NextId(rows) == MaxOf({r.id : r \in rows}) + 1

\* Model.save() on a row with a primary key: UPDATE of every field WHERE id = pk.
SaveRow(rows, row) ==
    IF \E r \in rows : r.id = row.id
    THEN {r \in rows : r.id # row.id} \cup {row}
    ELSE rows

NewAsset(id, filename, filetype, filesize, asset_id, parts) ==
    [id |-> id, filename |-> filename, filetype |-> filetype,
     filesize |-> filesize, asset_id |-> asset_id, status |-> ST_NEW,
     parts |-> parts, google_product_url |-> ""]

\* An insert that does not look the file name up first and that no unique
\* index stops: what get_or_create and unique=True together rule out.
InsertUnchecked(rows, filename, filetype, filesize, asset_id, parts) ==
    LET a == NewAsset(NextId(rows), filename, filetype, filesize,
                      asset_id, parts)
    IN [asset |-> a, created |-> TRUE, rows |-> rows \cup {a}]

\* Asset.get_or_create(filename=..., defaults=...): the row of that file name
\* when there is one, a freshly inserted row otherwise.
GetOrCreate(rows, filename, filetype, filesize, asset_id, parts) ==
    IF \E r \in rows : r.filename = filename
    THEN [asset |-> CHOOSE r \in rows : r.filename = filename,
          created |-> FALSE, rows |-> rows]
    ELSE LET a == NewAsset(NextId(rows), filename, filetype, filesize,
                           asset_id, parts)
         IN [asset |-> a, created |-> TRUE, rows |-> rows \cup {a}]

\* A reconnect that assigns asset.asset_id and leaves out asset.save().
ReconnectUnsaved(rows, asset, asset_id) == rows

\* A reconnect that starts the asset over.
ReconnectReset(rows, asset, asset_id) ==
    SaveRow(rows, [asset EXCEPT !.asset_id = asset_id, !.status = ST_NEW])

\* The reconnect case: asset.asset_id = asset_id; asset.save().
Reconnect(rows, asset, asset_id) ==
    SaveRow(rows, [asset EXCEPT !.asset_id = asset_id])

\* The loop with range(1, parts) in place of range(1, parts + 1).
CreatePartsShort(rows, asset, parts) ==
    rows \cup {[id |-> NextId(rows) + i - 1, part_no |-> i,
                asset |-> asset.id, status |-> ST_NEW] : i \in 1..(parts - 1)}

\* The loop of AssetPart.create calls: rows part_no 1..parts, status NEW.
CreateParts(rows, asset, parts) ==
    rows \cup {[id |-> NextId(rows) + i - 1, part_no |-> i,
                asset |-> asset.id, status |-> ST_NEW] : i \in 1..parts}

\* ------------------------------------------------------------ create-asset
Extension(filetype) ==
    CASE filetype = "image/jpeg" -> ".JPG"
      [] filetype = "image/x-fujifilm-raf" -> ".RAF"
      [] filetype = "video/mp4" -> ".mp4"
      [] OTHER -> "unknown"

UploadUrls(asset_id, extension, parts) ==
    [part \in 1..parts |->
        [asset_id |-> asset_id, extension |-> extension,
         part_count |-> parts, part_number |-> part]]

\* What the handler answers once the rows are written: 400 for a filetype
\* outside the table, the IndexError of urls[0] when there is no part, else
\* the frame.io asset payload.
CreateResponse(asset_id, filetype, parts) ==
    IF Extension(filetype) = "unknown"
    THEN [status |-> 400, body |-> [status |-> "oh god"]]
    ELSE IF parts < 1
    THEN [status |-> 500, body |-> "IndexError"]
    ELSE LET urls == UploadUrls(asset_id, Extension(filetype), parts)
         IN [status |-> 200,
             body |-> [id |-> asset_id, upload_urls |-> urls,
                       original_upload |-> urls[1]]]

\* The record of a step that suspends its task: nothing is answered yet.
Step(op, what) == [op |-> op, req |-> NoReq, status |-> what, body |-> "none"]

\* The record of a served request: what was asked and what was answered.
Served(op, req, resp) ==
    [op |-> op, req |-> req, status |-> resp.status, body |-> resp.body]

\* A handler without the assertion on the part count.
PartsUnchecked(asset, parts) == TRUE

\* assert asset.parts == parts, "Camera changed parts on the fly??"
PartsAgree(asset, parts) == asset.parts = parts

handle_create_asset(filename, filetype, filesize, parts) ==
    /\ uuids < MaxCreates
    /\ uuids' = uuids + 1
    /\ LET asset_id == UuidStr(uuids + 1)
           req == [name |-> filename, filetype |-> filetype,
                   filesize |-> filesize, parts |-> parts]
           got == GetOrCreate(assets, filename, filetype, filesize,
                              asset_id, parts)
       IN IF ~PartsAgree(got.asset, parts)
          THEN /\ assets' = got.rows
               /\ UNCHANGED assetParts
               /\ last' = Served("create", req,
                            [status |-> 500, body |-> "parts changed"])
          ELSE /\ IF got.created
                  THEN /\ assets' = got.rows
                       /\ assetParts' = CreateParts(assetParts, got.asset, parts)
                  ELSE /\ assets' = Reconnect(got.rows, got.asset, asset_id)
                       /\ UNCHANGED assetParts
               /\ last' = Served("create", req,
                            CreateResponse(asset_id, filetype, parts))
    /\ UNCHANGED <<files, media, uploads, sweeps, devices, socket>>
    /\ UNCHANGED <<albums, token_file, photo>>

\* ---------------------------------------------------------------- stitching
\* The bytes of a chunk: n bytes, each tagged with the part it belongs to.
Body(part, n) == [i \in 1..n |-> part]

\* The copy loop run over the parts k..1, the last part first.
RECURSIVE CatPartsDescending(_, _, _)
CatPartsDescending(fs, filename, k) ==
    IF k = 0 THEN <<>>
    ELSE fs[PartPath(filename, k)] \o CatPartsDescending(fs, filename, k - 1)

RECURSIVE CatParts(_, _, _)
\* shutil.copyfileobj of parts 1..k, in ascending order, into the output file.
CatParts(fs, filename, k) ==
    IF k = 0 THEN <<>>
    ELSE CatParts(fs, filename, k - 1) \o fs[PartPath(filename, k)]

\* os.remove of the part files 1..parts; a missing one is passed over.
RemoveParts(fs, filename, parts) ==
    [q \in DOMAIN fs \ {PartPath(filename, p) : p \in 1..parts} |-> fs[q]]

\* asset.delete(): peewee's Model.delete is a classmethod that builds a DELETE
\* query; the query is never executed, so no row leaves the table.
AssetDelete(rows, asset) == rows

\* stitch_file(asset) on the images directory fs and the asset table rows.
\* open(out_file, "wb") truncates first; the copy stops at the first part file
\* that is missing, leaving what was copied so far.
stitch_file(asset, fs, rows) ==
    LET missing == {p \in 1..asset.parts :
                        ~Exists(fs, PartPath(asset.filename, p))}
        upto == IF missing = {} THEN asset.parts
                ELSE (CHOOSE m \in missing : \A x \in missing : m <= x) - 1
        out == CatParts(fs, asset.filename, upto)
        fs1 == WriteFile(fs, AssetPath(asset.filename), out)
    IN  IF missing # {}
        THEN [err |-> "FileNotFoundError", files |-> fs1, assets |-> rows]
        ELSE IF Len(out) # asset.filesize
        THEN [err |-> "size mismatch", files |-> fs1,
              assets |-> AssetDelete(rows, asset)]
        ELSE [err |-> "ok",
              files |-> RemoveParts(fs1, asset.filename, asset.parts),
              assets |-> SaveRow(rows, [asset EXCEPT !.status = ST_AVAILABLE])]

\* ------------------------------------------------------------ chunk upload
\* A lookup by part number alone, whatever the identifier.
FindPartsAnyId(asset_id, part) == {ap \in assetParts : ap.part_no = part}

\* The AssetPart rows the lookup joins to: part_no matches and the owning
\* Asset carries the session asset identifier of the query string.
FindParts(asset_id, part) ==
    {ap \in assetParts : /\ ap.part_no = part
                         /\ \E a \in assets : /\ a.id = ap.asset
                                              /\ a.asset_id = asset_id}

\* The least free slot: requests carry no identity of their own.
FreeSlot(slots, s) == /\ slots[s] = Idle
                      /\ \A t \in DOMAIN slots : t < s => slots[t] # Idle

\* Stitching after every part, without the test on the part number.
StitchOnAnyPart(part, asset) == TRUE

\* if part == asset_part.asset.parts: the last part number triggers stitching.
StitchDue(part, asset) == part = asset.parts

\* The handler with the add_task call in force.
SweepAfterStitchOn == TRUE

\* request.app.add_task(upload_to_google, name="upload_to_google") after the
\* stitch: the line is commented out, so no sweep is scheduled.
SweepAfterStitch == FALSE

\* app.add_task: the task is scheduled in a free slot, to be started later.
AddTask(slots, due) ==
    IF due /\ \E t \in DOMAIN slots : slots[t] = Idle
    THEN [slots EXCEPT ![CHOOSE t \in DOMAIN slots : slots[t] = Idle] =
                          [pc |-> "scheduled"]]
    ELSE slots

\* A handler without the assertion on the byte count.
LengthUnchecked(written, length) == TRUE

\* assert written == length, (length, written)
LengthAgrees(written, length) == written = length

\* text("ok", status=200) when nothing was raised; an exception that leaves
\* the handler is answered 500 by the server.
UploadResponse(err) ==
    IF err = "ok" THEN [status |-> 200, body |-> "ok"]
    ELSE [status |-> 500, body |-> err]

\* handle_upload up to its first await: the lookup, the load of
\* asset_part.asset (cached on the instance from here on) and the status test.
handle_upload_begin(s, asset_id, part) ==
    /\ FreeSlot(uploads, s)
    /\ IF FindParts(asset_id, part) = {}
       THEN /\ last' = Served("upload", [asset_id |-> asset_id, part |-> part],
                              UploadResponse("DoesNotExist"))
            /\ UNCHANGED uploads
       ELSE \E ap \in FindParts(asset_id, part) :
            /\ uploads' = [uploads EXCEPT ![s] =
                    [pc |-> "read", asset_part |-> ap,
                     asset |-> CHOOSE a \in assets : a.id = ap.asset]]
            /\ last' = [Step("upload", 100) EXCEPT
                            !.req = [asset_id |-> asset_id, part |-> part]]
    /\ UNCHANGED <<assets, assetParts, files, uuids, media, sweeps>>
    /\ UNCHANGED <<devices, socket>>
    /\ UNCHANGED <<albums, token_file, photo>>

\* handle_upload after the body has been read: n bytes arrived, the
\* content-length header said length.
handle_upload_finish(s, n, length) ==
    /\ uploads[s] # Idle
    /\ LET r == uploads[s]
           part == r.asset_part.part_no
           write == r.asset_part.status # ST_AVAILABLE
           req == [name |-> r.asset.filename, asset |-> r.asset.id,
                   part |-> part, seen |-> r.asset_part.status, n |-> n]
           fs1 == IF write
                  THEN WriteFile(files, PartPath(r.asset.filename, part),
                                 Body(part, n))
                  ELSE files
       IN IF write /\ ~LengthAgrees(n, length)
          THEN \* the assertion fails after the file has been written
               /\ files' = fs1
               /\ last' = Served("upload", req,
                                 UploadResponse("written != length"))
               /\ UNCHANGED <<assets, assetParts, sweeps>>
          ELSE /\ assetParts' =
                    IF write
                    THEN SaveRow(assetParts,
                            [r.asset_part EXCEPT !.status = ST_AVAILABLE])
                    ELSE assetParts
               /\ IF StitchDue(part, r.asset)
                  THEN LET st == stitch_file(r.asset, fs1, assets)
                       IN /\ files' = st.files
                          /\ assets' = st.assets
                          /\ sweeps' = AddTask(sweeps, st.err = "ok"
                                                       /\ SweepAfterStitch)
                          /\ last' = Served("upload", req,
                                            UploadResponse(st.err))
                  ELSE /\ files' = fs1
                       /\ UNCHANGED <<assets, sweeps>>
                       /\ last' = Served("upload", req, UploadResponse("ok"))
    /\ uploads' = [uploads EXCEPT ![s] = Idle]
    /\ UNCHANGED <<uuids, media, devices, socket>>
    /\ UNCHANGED <<albums, token_file, photo>>

\* -------------------------------------------------------------- upload sweep
RECURSIVE ById(_)
\* The rows of a SELECT without ORDER BY, in the order of the table scan.
ById(rows) ==
    IF rows = {} THEN <<>>
    ELSE LET m == CHOOSE r \in rows : \A x \in rows : r.id <= x.id
         IN <<m>> \o ById(rows \ {m})

\* The productUrl Google Photos assigns to the n-th media item of a file name.
ProductUrl(filename, n) == <<"https://photos.google.com/lr/photo", filename, n>>

\* A loop without the try/except: an error of upload_photo leaves the sweep.
SwallowedNever(err) == FALSE

\* except (FileNotFoundError, Exception): whatever upload_photo raises is
\* logged and swallowed; the loop goes on with the next asset.
Swallowed(err) == TRUE

\* asset.status = UPLOADED; asset.google_product_url = url; asset.save().
MarkUploaded(rows, asset, url) ==
    SaveRow(rows, [asset EXCEPT !.status = ST_UPLOADED,
                                !.google_product_url = url])

\* An except branch that records the failure on the row.
MarkFailed(rows, asset) == SaveRow(rows, [asset EXCEPT !.status = ST_FAILED])

\* The except branch: the asset is left as it is, to be retried later.
KeepForRetry(rows, asset) == rows

\* The loop of upload_to_google from the k-th selected asset on, up to the
\* next await.  upload_photo opens the local file before its first HTTP call,
\* so an asset whose file is missing fails there and then; the first asset
\* whose file is there leaves the sweep suspended on the call for it.
\* r.store is the asset table as the loop leaves it.
RECURSIVE SweepFrom(_, _, _)
SweepFrom(r, k, fs) ==
    IF k > Len(r.rows)
    THEN [r EXCEPT !.pc = "returned"]
    ELSE LET a == r.rows[k]
             r1 == [r EXCEPT !.tried = @ \cup {a.id}]
         IN IF Exists(fs, AssetPath(a.filename))
            THEN [r1 EXCEPT !.pc = "await", !.pos = k]
            ELSE LET r2 == [r1 EXCEPT !.failed = @ \cup {a.id},
                                      !.store = KeepForRetry(@, a)]
                 IN IF Swallowed("FileNotFoundError")
                    THEN SweepFrom(r2, k + 1, fs)
                    ELSE [r2 EXCEPT !.pc = "raised"]

\* What a sweep leaves behind once it is over.
SweepEnd(r) ==
    [op |-> "sweep", req |-> [selected |-> r.selected], status |-> r.pc,
     body |-> [tried |-> r.tried, failed |-> r.failed]]

\* The sweep as it is kept while suspended (the asset table is not part of it).
Suspended(r) ==
    [pc |-> r.pc, rows |-> r.rows, pos |-> r.pos, selected |-> r.selected,
     tried |-> r.tried, failed |-> r.failed]

\* upload_to_google up to its first await: the selection of the assets in
\* status AVAILABLE, as of the moment the query runs, and the first calls.
upload_to_google_begin(s) ==
    /\ FreeSlot(sweeps, s)
    /\ LET sel == ById({a \in assets : a.status = ST_AVAILABLE})
           r == SweepFrom([pc |-> "select", rows |-> sel, pos |-> 0,
                           selected |-> {sel[i].id : i \in 1..Len(sel)},
                           tried |-> {}, failed |-> {}, store |-> assets],
                          1, files)
       IN /\ assets' = r.store
          /\ IF r.pc = "await"
             THEN /\ sweeps' = [sweeps EXCEPT ![s] = Suspended(r)]
                  /\ last' = Step("sweep", "calling")
             ELSE /\ last' = SweepEnd(r)
                  /\ UNCHANGED sweeps
    /\ UNCHANGED <<assetParts, files, uuids, media, uploads, devices, socket>>
    /\ UNCHANGED <<albums, token_file, photo>>

\* upload_to_google from the point where the awaited upload_photo comes back,
\* with the product URL (ok) or with an error, up to the next await or the
\* end of the loop.
upload_to_google_after(s, ok) ==
    /\ sweeps[s] # Idle
    /\ LET r == sweeps[s]
           asset == r.rows[r.pos]
           n == media[asset.filename] + 1
           url == ProductUrl(asset.filename, n)
           r1 == [pc |-> r.pc, rows |-> r.rows, pos |-> r.pos,
                  selected |-> r.selected, tried |-> r.tried,
                  failed |-> IF ok THEN r.failed
                             ELSE r.failed \cup {asset.id},
                  store |-> IF ok THEN MarkUploaded(assets, asset, url)
                            ELSE KeepForRetry(assets, asset)]
           r2 == IF ok \/ Swallowed("AssertionError")
                 THEN SweepFrom(r1, r.pos + 1, files)
                 ELSE [r1 EXCEPT !.pc = "raised"]
       IN /\ ok => n <= MaxMedia
          /\ media' = IF ok THEN [media EXCEPT ![asset.filename] = n]
                      ELSE media
          /\ assets' = r2.store
          /\ IF r2.pc = "await"
             THEN /\ sweeps' = [sweeps EXCEPT ![s] = Suspended(r2)]
                  /\ last' = [op |-> "upload_photo", req |-> asset.id,
                              status |-> IF ok THEN "uploaded" ELSE "failed",
                              body |-> IF ok THEN url ELSE <<"error">>]
             ELSE /\ sweeps' = [sweeps EXCEPT ![s] = Idle]
                  /\ last' = SweepEnd(r2)
    /\ UNCHANGED <<assetParts, files, uuids, uploads, devices, socket>>
    /\ UNCHANGED <<albums, token_file>>

\* upload_to_google when the awaited upload_photo comes back, whatever passed
\* between upload_photo and Google Photos.
upload_to_google_resume(s, ok) ==
    /\ upload_to_google_after(s, ok)
    /\ UNCHANGED photo


\* ------------------------------------------------------------------ devices
\* The decimal digits of n, most significant first.
RECURSIVE Digits(_)
Digits(n) == IF n < 10 THEN <<n>> ELSE Digits(n \div 10) \o <<n % 10>>

\* f"{n:06d}": the digits of n, padded with zeros on the left to width 6.
RECURSIVE ZeroPad(_, _)
ZeroPad(d, width) == IF Len(d) >= width THEN d ELSE ZeroPad(<<0>> \o d, width)

Format06d(n) == ZeroPad(Digits(n), 6)

\* The values of random.randrange the model follows: both ends of the range.
UserCodeDraws == {RAND_START, RAND_STOP - 1}
ClientIds == {"fuji-x100vi", "fuji-xt5"}
\* The user codes an approval may be asked for: issued ones and other text.
UserCodePaths == {Format06d(n) : n \in UserCodeDraws} \cup {<<0, 0, 7>>}

\* An insert that is left out when the client already has a row.
DeviceCreateOnce(rows, row) ==
    IF \E r \in rows : r.client_id = row.client_id THEN rows
    ELSE rows \cup {row}

\* Device.create(...): a row is inserted on every call.
DeviceCreate(rows, row) == rows \cup {row}

\* Device.get(user_code=...): the first row with that user code, if any.
DeviceGet(rows, user_code) ==
    LET found == {r \in rows : r.user_code = user_code}
    IN IF found = {} THEN <<>>
       ELSE <<CHOOSE r \in found : \A x \in found : r.id <= x.id>>

\* An approval that assigns device.added and leaves out device.save().
ApproveUnsaved(rows, device) == rows

\* device.added = True; device.save().
Approve(rows, device) == SaveRow(rows, [device EXCEPT !.added = TRUE])

\* handle_device_code: a user code and a device code are drawn, a Device row
\* is inserted, both codes are returned.  The uuid4 values of device codes are
\* numbered after those of the assets.
handle_device_code(client_id, client_secret, n) ==
    /\ Cardinality(devices) < MaxDevices
    /\ LET user_code == Format06d(n)
           device_code == UuidStr(MaxCreates + NextId(devices))
           row == [id |-> NextId(devices), client_id |-> client_id,
                   client_secret |-> client_secret, user_code |-> user_code,
                   device_code |-> device_code, added |-> FALSE]
       IN /\ devices' = DeviceCreate(devices, row)
          /\ last' = Served("device_code", [client_id |-> client_id],
                       [status |-> 200,
                        body |-> [device_code |-> device_code,
                                  expires_in |-> 120, interval |-> 5,
                                  name |-> <<"MyDevice-", client_id>>,
                                  user_code |-> user_code]])
    /\ UNCHANGED <<assets, assetParts, files, uuids, media, uploads, sweeps>>
    /\ UNCHANGED socket
    /\ UNCHANGED <<albums, token_file, photo>>

\* token_response: the pair of tokens the environment configures.
TokenBody ==
    [access_token |-> "FUJIDROP_ACCESS_TOKEN", expires_in |-> 28800,
     refresh_token |-> "FUJIDROP_REFRESH_TOKEN", token_type |-> "bearer"]

\* An exchange that waits for the approval of the device.
TokenResponseIfAdded(rows, device_code) ==
    IF \E d \in rows : d.device_code = device_code /\ d.added
    THEN [status |-> 200, body |-> TokenBody]
    ELSE [status |-> 400, body |-> [error |-> "authorization_pending"]]

\* return json(token_response): no Device row is looked up.
TokenResponse(rows, device_code) == [status |-> 200, body |-> TokenBody]

\* handle_auth_token: the same token for every request, whatever the device.
handle_auth_token(device_code, client_id) ==
    /\ last' = Served("auth_token",
                 [device_code |-> device_code, client_id |-> client_id],
                 TokenResponse(devices, device_code))
    /\ UNCHANGED <<assets, assetParts, files, uuids, media, uploads, sweeps>>
    /\ UNCHANGED <<devices, socket>>
    /\ UNCHANGED <<albums, token_file, photo>>

\* handle_add_device: the manual approval of the device with a user code.
handle_add_device(user_code) ==
    /\ LET got == DeviceGet(devices, user_code)
       IN IF got = <<>>
          THEN /\ UNCHANGED devices
               /\ last' = Served("add_device", [user_code |-> user_code],
                            [status |-> 404, body |-> [status |-> "not found"]])
          ELSE /\ devices' = Approve(devices, got[1])
               /\ last' = Served("add_device", [user_code |-> user_code],
                            [status |-> 200, body |-> [status |-> "ok"]])
    /\ UNCHANGED <<assets, assetParts, files, uuids, media, uploads, sweeps>>
    /\ UNCHANGED socket
    /\ UNCHANGED <<albums, token_file, photo>>


\* ------------------------------------------------------------ client status
\* An album lookup that never finds a row.
AlbumGetNone(rows) == <<>>

\* Album.get(): the first row of the table; <<>> stands for DoesNotExist,
\* which the handler turns into None.
AlbumGet(rows) ==
    IF rows = {} THEN <<>>
    ELSE <<CHOOSE r \in rows : \A x \in rows : r.rowid <= x.rowid>>

\* model_to_dict of every row of a SELECT, in the order of the table scan.
RECURSIVE Results(_)
Results(rows) ==
    IF rows = {} THEN <<>>
    ELSE LET m == CHOOSE r \in rows : \A x \in rows : r.id <= x.id
         IN <<m>> \o Results(rows \ {m})

\* handle_status: the counts and the rows of the asset and device tables and
\* the album, read in one go; nothing is written.
handle_status ==
    /\ last' = Served("status", NoReq,
                 [status |-> 200,
                  body |-> [assets |-> [count |-> Cardinality(assets),
                                        results |-> Results(assets)],
                            devices |-> [count |-> Cardinality(devices),
                                         results |-> Results(devices)],
                            album |-> AlbumGet(albums)]])
    /\ UNCHANGED <<assets, assetParts, files, uuids, media, uploads, sweeps>>
    /\ UNCHANGED <<devices, socket, albums, token_file, photo>>

\* create_album once Google Photos has answered: Album.create with the id,
\* title and productUrl of a writable album; an assertion error otherwise.
create_album(ok) ==
    /\ Cardinality(albums) < MaxAlbums
    /\ LET n == Cardinality(albums) + 1
       IN IF ok
          THEN /\ albums' = albums \cup
                    {[rowid |-> n, id |-> <<"album", n>>, title |-> "X100VI",
                      productUrl |-> <<"https://photos.google.com/lr/album", n>>]}
               /\ last' = [op |-> "create_album", req |-> NoReq,
                           status |-> 200, body |-> <<"album", n>>]
          ELSE /\ UNCHANGED albums
               /\ last' = [op |-> "create_album", req |-> NoReq,
                           status |-> 0, body |-> "AssertionError"]
    /\ UNCHANGED <<assets, assetParts, files, uuids, media, uploads, sweeps>>
    /\ UNCHANGED <<token_file, photo>>
    /\ UNCHANGED <<devices, socket>>

\* ------------------------------------------------------ Google credentials
\* Credentials as the token file keeps them: the access token and the
\* refresh token, each numbered by the grant it comes from (0 when there is
\* none), and whether the expiry of the access token has passed.
TokenFiles ==
    {<<>>} \cup {<<[token |-> t, expired |-> e, refresh_token |-> r]>> :
                    t \in 0..MaxTokens, e \in BOOLEAN, r \in 0..MaxTokens}

\* A token file with valid credentials, as a finished sign-in leaves it.
SavedToken == <<[token |-> 1, expired |-> FALSE, refresh_token |-> 1]>>

\* creds.valid: an access token is held and has not expired.
Valid(creds) == creds.token # 0 /\ ~creds.expired

\* creds and creds.expired and creds.refresh_token.
Refreshable(creds) == creds.expired /\ creds.refresh_token # 0

\* The branch get_credentials takes for the content of the token file.
CredentialsPath(saved) ==
    IF saved # <<>> /\ Valid(saved[1]) THEN "saved"
    ELSE IF saved # <<>> /\ Refreshable(saved[1]) THEN "refresh"
    ELSE "flow"

\* get_credentials: the saved credentials when they are valid, refreshed ones
\* when they have expired and hold a refresh token, those of the interactive
\* flow otherwise; the token file is written before the return.  granted says
\* whether Google answers the refresh or the flow with a token; if not, the
\* call raises and nothing is written.  issued is whether the flow hands out
\* a refresh token.  The step records the branch taken and the credentials
\* returned, none if the call raised.
get_credentials(granted, issued) ==
    /\ LET saved == token_file
           path == CredentialsPath(saved)
           fresh == IF saved = <<>> THEN 1 ELSE saved[1].token + 1
           creds == IF path = "saved" THEN saved[1]
                    ELSE IF path = "refresh"
                    THEN [saved[1] EXCEPT !.token = fresh, !.expired = FALSE]
                    ELSE [token |-> fresh, expired |-> FALSE,
                          refresh_token |-> IF issued THEN fresh ELSE 0]
       IN IF path = "saved" \/ granted
          THEN /\ path # "saved" => fresh <= MaxTokens
               /\ token_file' = <<creds>>
               /\ last' = [op |-> "get_credentials", req |-> saved,
                           status |-> 1,
                           body |-> [path |-> path, creds |-> <<creds>>]]
          ELSE /\ UNCHANGED token_file
               /\ last' = [op |-> "get_credentials", req |-> saved,
                           status |-> 1,
                           body |-> [path |-> path, creds |-> <<>>]]
    /\ UNCHANGED <<assets, assetParts, files, uuids, media, uploads, sweeps>>
    /\ UNCHANGED <<devices, socket, albums, photo>>

\* Time passes the expiry of the saved access token: creds.expired turns true.
token_expires ==
    /\ token_file # <<>>
    /\ ~token_file[1].expired
    /\ token_file' = <<[token_file[1] EXCEPT !.expired = TRUE]>>
    /\ UNCHANGED <<assets, assetParts, files, uuids, media, uploads, sweeps>>
    /\ UNCHANGED <<last, devices, socket, albums, photo>>

\* ------------------------------------------------------------ upload_photo
\* What Google Photos answers to the two requests of upload_photo: the status
\* of the raw upload, the status of mediaItems:batchCreate and the status
\* message of its first result.
UploadStatuses == {200, 401}
CreateStatuses == {200, 400}
Messages == {"Success", "SUCCESS", "Invalid upload token"}
Answers ==
    [upload : UploadStatuses, create : CreateStatuses, message : Messages]

\* assert resp.status == 200 on the answer to POST /v1/uploads.
UploadAccepted(answer) == answer.upload = 200

\* A batch-create that is taken as done on status 200 alone.
CreateAcceptedAnyMessage(answer) == answer.create = 200

\* assert resp.status == 200 and assert message == "Success" on the answer to
\* POST /v1/mediaItems:batchCreate.
CreateAccepted(answer) == answer.create = 200 /\ answer.message = "Success"

\* upload_photo from its first request on: the requests sent, each with the
\* answer it got, and the product URL returned or the error raised.  The
\* batch-create carries the id of the album, if the table has one.
UploadPhoto(filename, n, rows, answer) ==
    LET upload == [url |-> "/v1/uploads", file |-> filename,
                   status |-> answer.upload, message |-> ""]
        album == AlbumGet(rows)
        create == [url |-> "/v1/mediaItems:batchCreate", file |-> filename,
                   status |-> answer.create,
                   message |-> IF answer.create = 200 THEN answer.message
                               ELSE "",
                   albumId |-> IF album = <<>> THEN <<>> ELSE <<album[1].id>>]
    IN IF ~UploadAccepted(answer)
       THEN [sent |-> <<upload>>, raised |-> "AssertionError",
             returned |-> <<>>]
       ELSE IF ~CreateAccepted(answer)
       THEN [sent |-> <<upload, create>>, raised |-> "AssertionError",
             returned |-> <<>>]
       ELSE [sent |-> <<upload, create>>, raised |-> "",
             returned |-> <<ProductUrl(filename, n)>>]

\* upload_to_google when the awaited upload_photo comes back, with what passed
\* between upload_photo and Google Photos: the sweep goes on with the URL
\* returned, or with the error raised.
upload_to_google_answer(s, answer) ==
    /\ sweeps[s] # Idle
    /\ LET asset == sweeps[s].rows[sweeps[s].pos]
           out == UploadPhoto(asset.filename, media[asset.filename] + 1,
                              albums, answer)
       IN /\ upload_to_google_after(s, out.returned # <<>>)
          /\ photo' = out

\* ---------------------------------------------------------------- WebSocket
\* Text is kept as the sequence of its tokens, so that a prefix can be told.
StartsWith(text, prefix) ==
    /\ Len(text) >= Len(prefix)
    /\ SubSeq(text, 1, Len(prefix)) = prefix

\* request.args.get("Authorization", ""): absent, a bearer token, the word
\* without the blank, another scheme.
AuthParams == {<<>>, <<"Bearer", " ", "TOKEN">>, <<"Bearer">>,
               <<"Basic", " ", "TOKEN">>}

\* if not auth_param or not auth_param.startswith("Bearer ")
Authorized(auth_param) ==
    auth_param # <<>> /\ StartsWith(auth_param, <<"Bearer", " ">>)

\* What ws.recv hands over: text that is a JSON object with some of the keys
\* topic, event and ref, JSON text that is no object, text that is no JSON,
\* and None.
Object(data) == [type |-> "object", data |-> data]
DevicesTopic == <<"devices", ":", "abc">>
Frames ==
    { Object([event |-> "phx_join", topic |-> DevicesTopic, ref |-> "1"]),
      Object([event |-> "phx_join", topic |-> <<"devices", ":">>, ref |-> "2"]),
      Object([event |-> "phx_join", topic |-> <<"device", ":", "abc">>,
              ref |-> "3"]),
      Object([event |-> "heartbeat", topic |-> <<"phoenix">>, ref |-> "4"]),
      Object([event |-> "heartbeat", topic |-> <<"phoenix">>]),
      Object([event |-> "heartbeat", topic |-> DevicesTopic, ref |-> "5"]),
      Object([event |-> "status_updated", topic |-> DevicesTopic,
              ref |-> "6"]),
      Object([event |-> "phx_leave", topic |-> DevicesTopic, ref |-> "7"]),
      Object([topic |-> <<"phoenix">>, ref |-> "8"]),
      [type |-> "array"],
      [type |-> "text"] }
NoneFrame == [type |-> "None"]

\* json_lib.loads(message): the value, or the error it raises.
Loads(message) ==
    CASE message.type = "object" -> [err |-> "none", object |-> TRUE,
                                      data |-> message.data]
      [] message.type = "array" -> [err |-> "none", object |-> FALSE]
      [] message.type = "text" -> [err |-> "JSONDecodeError"]
      [] OTHER -> [err |-> "TypeError"]

\* data.get(key, default)
Get(data, key, default) == IF key \in DOMAIN data THEN data[key] ELSE default

\* A reply that leaves the ref of the message out.
PhxReplyNoRef(ref, topic) ==
    [event |-> "phx_reply", payload |-> [response |-> <<>>, status |-> "ok"],
     ref |-> "", topic |-> topic]

\* The phx_reply the handler builds for a join or a heartbeat.
PhxReply(ref, topic) ==
    [event |-> "phx_reply", payload |-> [response |-> <<>>, status |-> "ok"],
     ref |-> ref, topic |-> topic]

\* A join accepted on whatever topic.
IsJoinAnyTopic(event, topic) == event = "phx_join"

\* if event == "phx_join" and topic.startswith("devices:")
IsJoin(event, topic) ==
    event = "phx_join" /\ StartsWith(topic, <<"devices", ":">>)

\* elif event == "heartbeat" and topic == "phoenix"
IsHeartbeat(event, topic) == event = "heartbeat" /\ topic = <<"phoenix">>

\* The body of the loop for one result of ws.recv: the replies it sends, if
\* any.  A value that is no object has no get, and None is no JSON text: both
\* errors are caught by the inner except Exception, like a JSONDecodeError.
Replies(message) ==
    LET parsed == Loads(message)
    IN IF parsed.err # "none" THEN <<>>
       ELSE IF ~parsed.object THEN <<>>
       ELSE LET topic == Get(parsed.data, "topic", <<>>)
                event == Get(parsed.data, "event", "")
                ref == Get(parsed.data, "ref", "")
            IN IF IsJoin(event, topic) THEN <<PhxReply(ref, topic)>>
               ELSE IF IsHeartbeat(event, topic)
                    THEN <<PhxReply(ref, <<"phoenix">>)>>
               ELSE <<>>

\* ws.close(code, reason) as the handler calls it; raised tells whether the
\* call raised, which the handler passes over.
CloseCall(code, reason, raised) ==
    [code |-> code, reason |-> reason, raised |-> raised]

\* finally: if connection_open: await ws.close(code=1000, ...).
FinalClose(connection_open, raised) ==
    IF connection_open THEN <<CloseCall(1000, "Normal closure", raised)>>
    ELSE <<>>

Terminal == {"returned", "cancelled"}

\* devices_websocket from the connection to the first ws.recv, or, without a
\* bearer token, to its return: the close with 403, the return inside the
\* try, and the finally block, which finds connection_open still True.
devices_websocket_connect(auth_param, raised403, raised1000) ==
    /\ socket.pc = "none"
    /\ socket' =
         IF Authorized(auth_param)
         THEN [pc |-> "recv", auth |-> auth_param, connection_open |-> TRUE,
               log |-> <<>>, sent |-> <<>>, closes |-> <<>>]
         ELSE [pc |-> "returned", auth |-> auth_param,
               connection_open |-> TRUE, log |-> <<>>, sent |-> <<>>,
               closes |-> <<CloseCall(403, "Unauthorized", raised403)>>
                          \o FinalClose(TRUE, raised1000)]
    /\ last' = Step("websocket", 101)
    /\ UNCHANGED <<assets, assetParts, files, uuids, media, uploads, sweeps>>
    /\ UNCHANGED devices
    /\ UNCHANGED <<albums, token_file, photo>>

\* One turn of the loop in which ws.recv hands over a message, or None when
\* the 75 seconds pass (Sanic's recv returns None on its timeout): the message
\* is handled and the reply, if any, sent.  A send that raises ends the loop
\* with connection_open False, so that the finally block closes nothing.
devices_websocket_message(message, send_raised) ==
    /\ socket.pc = "recv"
    /\ Len(socket.log) < MaxFrames
    /\ LET replies == Replies(message)
           failed == replies # <<>> /\ send_raised
       IN socket' = [socket EXCEPT
            !.log = Append(@, [recv |-> IF message = NoneFrame
                                        THEN "timeout" ELSE "message",
                               message |-> message]),
            !.sent = @ \o [i \in 1..Len(replies) |->
                              [reply |-> replies[i], raised |-> send_raised]],
            !.connection_open = ~failed,
            !.pc = IF failed THEN "returned" ELSE "recv",
            !.closes = @ \o (IF failed THEN FinalClose(FALSE, FALSE)
                             ELSE <<>>)]
    /\ last' = Step("websocket", 101)
    /\ UNCHANGED <<assets, assetParts, files, uuids, media, uploads, sweeps>>
    /\ UNCHANGED devices
    /\ UNCHANGED <<albums, token_file, photo>>

\* One turn of the loop in which ws.recv raises.  asyncio.TimeoutError,
\* ConnectionError and any other Exception set connection_open to False and
\* leave the loop; a CancelledError, which is no Exception, passes every
\* except clause and reaches the finally block with connection_open True.
devices_websocket_raise(error, raised1000) ==
    /\ socket.pc = "recv"
    /\ LET caught == error # "CancelledError"
       IN socket' = [socket EXCEPT
            !.log = Append(@, [recv |-> IF error = "TimeoutError"
                                        THEN "timeout" ELSE "error",
                               message |-> [type |-> error]]),
            !.connection_open = ~caught,
            !.pc = IF caught THEN "returned" ELSE "cancelled",
            !.closes = @ \o FinalClose(~caught, raised1000)]
    /\ last' = Step("websocket", 101)
    /\ UNCHANGED <<assets, assetParts, files, uuids, media, uploads, sweeps>>
    /\ UNCHANGED devices
    /\ UNCHANGED <<albums, token_file, photo>>

\* ------------------------------------------------------------------- spec
NoLast == [op |-> "none", req |-> NoReq, status |-> 0, body |-> "none"]

\* The server after start-up on an empty database and images directory.
Init ==
    /\ assets = {}
    /\ assetParts = {}
    /\ files = <<>>
    /\ uuids = 0
    /\ media = [f \in Filenames |-> 0]
    /\ uploads = [s \in UploadSlots |-> Idle]
    /\ sweeps = [s \in SweepSlots |-> Idle]
    /\ last = NoLast
    /\ devices = {}
    /\ socket = NoSocket
    /\ albums = {}
    /\ token_file = SavedToken
    /\ photo = NoPhoto

\* One picture: its create-asset calls and reconnects, its chunk uploads (two
\* may be in flight at once) and upload sweeps, one at a time.
Next ==
    \/ \E filesize \in FileSizes, parts \in PartCounts :
            handle_create_asset(Shot, "image/jpeg", filesize, parts)
    \/ \E s \in UploadSlots, asset_id \in Uuids, part \in 1..MaxParts :
            handle_upload_begin(s, asset_id, part)
    \/ \E s \in UploadSlots, n \in BodyLens :
        \E length \in {n, n + 1} : handle_upload_finish(s, n, length)
    \/ upload_to_google_begin(1)
    \/ \E ok \in BOOLEAN : upload_to_google_resume(1, ok)

Spec == Init /\ [][Next]_vars

\* ------------------------------------------------------------- a whole roll
\* The rows and the file of a one-part picture that was created, uploaded and
\* stitched before the behaviour starts; its identifiers were drawn then.
StitchedAsset(i, filename) ==
    [NewAsset(i, filename, "image/jpeg", 1, UuidStr(0 - i), 1)
        EXCEPT !.status = ST_AVAILABLE]

StitchedPart(i) ==
    [id |-> i, part_no |-> 1, asset |-> i, status |-> ST_AVAILABLE]

\* The server with the first k pictures of the roll stitched.  The operator
\* may have removed some of the stitched files from the images directory.
InitRoll ==
    \E k \in 0..Len(Roll) : \E gone \in SUBSET (1..k) :
        /\ assets = {StitchedAsset(i, Roll[i]) : i \in 1..k}
        /\ assetParts = {StitchedPart(i) : i \in 1..k}
        /\ files = [q \in {AssetPath(Roll[i]) : i \in (1..k) \ gone}
                        |-> Body(1, 1)]
        /\ uuids = 0
        /\ media = [f \in Filenames |-> 0]
        /\ uploads = [s \in UploadSlots |-> Idle]
        /\ sweeps = [s \in SweepSlots |-> Idle]
        /\ last = NoLast
        /\ devices = {}
        /\ socket = NoSocket
        /\ albums = {}
        /\ token_file = SavedToken
        /\ photo = NoPhoto

\* The roll: create-asset calls and reconnects for any of its pictures, and
\* upload sweeps, two of which may overlap.
NextRoll ==
    \/ \E filename \in Filenames, parts \in 1..MaxParts :
            handle_create_asset(filename, "image/jpeg", 1, parts)
    \/ \E s \in SweepSlots : upload_to_google_begin(s)
    \/ \E s \in SweepSlots, ok \in BOOLEAN : upload_to_google_resume(s, ok)

SpecRoll == InitRoll /\ [][NextRoll]_vars

\* ----------------------------------------------------------- create-asset
\* create-asset requests alone, for every file type and part count.
NextCreate ==
    \E filename \in Filenames, filetype \in Filetypes, parts \in PartCounts :
        handle_create_asset(filename, filetype, 1, parts)

SpecCreate == Init /\ [][NextCreate]_vars

\* ---------------------------------------------------- device authorisation
\* The device flow: code requests, token exchanges and manual approvals.
NextDevices ==
    \/ \E client_id \in ClientIds, n \in UserCodeDraws :
            handle_device_code(client_id, "secret", n)
    \/ \E client_id \in ClientIds, k \in 1..MaxDevices :
            handle_auth_token(UuidStr(MaxCreates + k), client_id)
    \/ \E user_code \in UserCodePaths : handle_add_device(user_code)

SpecDevices == Init /\ [][NextDevices]_vars

\* ------------------------------------------------------- WebSocket session
RecvErrors == {"TimeoutError", "ConnectionError", "Exception",
               "CancelledError"}

\* One connection to /devices/websocket, from the handshake to the return of
\* the handler.
NextSocket ==
    \/ \E auth_param \in AuthParams, raised403 \in BOOLEAN,
          raised1000 \in BOOLEAN :
            devices_websocket_connect(auth_param, raised403, raised1000)
    \/ \E message \in Frames \cup {NoneFrame}, send_raised \in BOOLEAN :
            devices_websocket_message(message, send_raised)
    \/ \E error \in RecvErrors, raised1000 \in BOOLEAN :
            devices_websocket_raise(error, raised1000)

SpecSocket == Init /\ [][NextSocket]_vars

\* --------------------------------------------------------------- reconnects
\* One picture whose camera reconnects: create-asset calls that may declare
\* another type or size each time, and chunk uploads whose bodies differ in
\* length from one attempt to the next, one upload at a time.
NextReconnect ==
    \/ \E filetype \in {"image/jpeg", "image/x-fujifilm-raf"},
          filesize \in FileSizes, parts \in 1..MaxParts :
            handle_create_asset(Shot, filetype, filesize, parts)
    \/ \E asset_id \in Uuids, part \in 1..MaxParts :
            handle_upload_begin(1, asset_id, part)
    \/ \E n \in 1..2 : handle_upload_finish(1, n, n)

SpecReconnect == Init /\ [][NextReconnect]_vars

\* ------------------------------------------------------------ short bodies
\* The content length every upload of SpecLength declares: one byte.
DeclaredLength == Len(Body(1, 1))

\* One picture, of one declared byte a part, whose chunks arrive with a body
\* of the declared length or with a longer one; two uploads may be in flight
\* at once.
NextLength ==
    \/ \E parts \in 1..MaxParts :
            handle_create_asset(Shot, "image/jpeg", parts, parts)
    \/ \E s \in UploadSlots, asset_id \in Uuids, part \in 1..MaxParts :
            handle_upload_begin(s, asset_id, part)
    \/ \E s \in UploadSlots, n \in 1..2 :
            handle_upload_finish(s, n, DeclaredLength)

SpecLength == Init /\ [][NextLength]_vars

\* ---------------------------------------------------------- the dashboard
\* The status endpoint between requests that fill the three tables it reads.
NextStatus ==
    \/ handle_status
    \/ \E filename \in Filenames :
            handle_create_asset(filename, "image/jpeg", 1, 1)
    \/ \E client_id \in ClientIds :
            handle_device_code(client_id, "secret", RAND_START)
    \/ handle_add_device(Format06d(RAND_START))
    \/ \E ok \in BOOLEAN : create_album(ok)

SpecStatus == Init /\ [][NextStatus]_vars

\* ------------------------------------------------------- the camera's side
\* Everything a camera can ask for, and nothing else: the traffic of one
\* picture, the device flow of one client and one WebSocket session, each of
\* them short, in any interleaving.  upload_to_google is not among it.
NextCamera ==
    \/ \E parts \in 1..MaxParts :      \* one byte a part: filesize = parts
            handle_create_asset(Shot, "image/jpeg", parts, parts)
    \/ \E s \in UploadSlots, asset_id \in Uuids, part \in 1..MaxParts :
            handle_upload_begin(s, asset_id, part)
    \/ \E s \in UploadSlots, n \in BodyLens :
            handle_upload_finish(s, n, n)
    \/ /\ devices = {}
       /\ handle_device_code("fuji-x100vi", "secret", RAND_START)
    \/ /\ devices # {}
       /\ handle_auth_token(UuidStr(MaxCreates + 1), "fuji-x100vi")
    \/ handle_add_device(Format06d(RAND_START))
    \/ /\ devices # {}                 \* the session follows the device flow
       /\ \E auth_param \in {<<>>, <<"Bearer", " ", "TOKEN">>} :
            devices_websocket_connect(auth_param, FALSE, FALSE)
    \/ /\ socket.pc = "recv"
       /\ socket.log = <<>>
       /\ \E message \in {m \in Frames : m.type = "object"
                                         /\ "ref" \in DOMAIN m.data
                                         /\ m.data.ref = "1"} :
            devices_websocket_message(message, FALSE)
    \/ /\ socket.pc = "recv"
       /\ socket.log # <<>>
       /\ devices_websocket_raise("ConnectionError", FALSE)

SpecCamera == Init /\ [][NextCamera]_vars

\* ------------------------------------------------------------ credentials
\* The server started on any token file: none, or one with or without an
\* access token, expired or not, with or without a refresh token.
InitCredentials ==
    /\ assets = {}
    /\ assetParts = {}
    /\ files = <<>>
    /\ uuids = 0
    /\ media = [f \in Filenames |-> 0]
    /\ uploads = [s \in UploadSlots |-> Idle]
    /\ sweeps = [s \in SweepSlots |-> Idle]
    /\ last = NoLast
    /\ devices = {}
    /\ socket = NoSocket
    /\ albums = {}
    /\ token_file \in TokenFiles
    /\ photo = NoPhoto

\* Calls of get_credentials, with the saved token expiring in between.
NextCredentials ==
    \/ \E granted \in BOOLEAN, issued \in BOOLEAN :
            get_credentials(granted, issued)
    \/ token_expires

SpecCredentials == InitCredentials /\ [][NextCredentials]_vars

\* ----------------------------------------------------------- Google Photos
\* The roll with some pictures stitched: upload sweeps, two of which may
\* overlap, with every answer Google Photos may give to upload_photo.
NextPhoto ==
    \/ \E s \in SweepSlots : upload_to_google_begin(s)
    \/ \E s \in SweepSlots, answer \in Answers :
            upload_to_google_answer(s, answer)

SpecPhoto == InitRoll /\ [][NextPhoto]_vars

\* ------------------------------------------------------------------ claims
PartsOf(rows, a) == {p \in rows : p.asset = a.id}

\* The step in which the chunk upload of slot s is answered.
Answered(s) == uploads[s] # Idle /\ uploads'[s] = Idle

\* The step is a served create-asset request.
Created == uuids' = uuids + 1 /\ last'.op = "create"

\* C1: an upload that finds its part already AVAILABLE (of an asset whose parts
\* all arrived and, for the last part, whose stitch went through) is answered
\* 200 "ok", writes no part file and leaves the stitched file as it is.
C1_ChunkIdempotent ==
    [][\A s \in UploadSlots :
        (/\ Answered(s)
         /\ uploads[s].asset_part.status = ST_AVAILABLE
         /\ \E a \in assets : /\ a.id = uploads[s].asset.id
                              /\ a.status = ST_AVAILABLE)
        => /\ last'.status = 200
           /\ last'.body = "ok"
           /\ files' = files]_vars

\* C2: a stitch that finds the size wrong removes the Asset row, and a
\* create-asset for the same file name that follows starts from scratch: a row
\* in status NEW with the declared values and with parts rows in status NEW.
C2_StitchRollback ==
    [][/\ \A s \in UploadSlots :
            (Answered(s) /\ last'.body = "size mismatch")
            => ~\E a \in assets' : a.filename = last'.req.name
       /\ (/\ last.op = "upload"
           /\ last.body = "size mismatch"
           /\ Created
           /\ last'.req.name = last.req.name
           /\ last'.status = 200)
          => \E a \in assets' :
                /\ a.filename = last'.req.name
                /\ a.status = ST_NEW
                /\ a.asset_id = last'.body.id
                /\ a.filesize = last'.req.filesize
                /\ \A p \in PartsOf(assetParts', a) : p.status = ST_NEW]_vars

\* C3: create-asset for a file name that has a row with the same part count
\* adds no Asset and no AssetPart row, keeps the row's id, and stores a
\* session asset identifier never issued before, the one the response returns.
C3_ReconnectKeepsIdentity ==
    [][(/\ Created
        /\ \E a \in assets : /\ a.filename = last'.req.name
                             /\ a.parts = last'.req.parts)
       => LET a == CHOOSE a \in assets : a.filename = last'.req.name
          IN /\ {x.id : x \in assets'} = {x.id : x \in assets}
             /\ assetParts' = assetParts
             /\ \E b \in assets' :
                    /\ b.id = a.id
                    /\ b.filename = a.filename
                    /\ b.asset_id # a.asset_id
                    /\ \A k \in 0..uuids : b.asset_id # UuidStr(k)
                    /\ last'.status = 200 => last'.body.id = b.asset_id]_vars

C3_Witness ==
    /\ last.op = "create"
    /\ last.status = 200
    /\ uuids = 2
    /\ \E a \in assets : /\ a.id = 1
                         /\ a.filename = last.req.name
                         /\ a.asset_id = UuidStr(2)
                         /\ a.asset_id = last.body.id
    /\ Cardinality(assets) = 1

C5_OneRowPerFilename ==
    \A a \in assets : \A b \in assets : a.filename = b.filename => a = b

C5_Witness ==
    /\ uuids = 2
    /\ last.op = "create"
    /\ last.status = 200
    /\ \E a \in assets : /\ a.filename = last.req.name
                         /\ a.status = ST_NEW
                         /\ a.asset_id = UuidStr(2)
    /\ Cardinality({a \in assets : a.status = ST_NEW}) = 1

\* C6: when the upload that delivers the last outstanding part of a not yet
\* stitched asset is answered, each part having been delivered with its
\* declared byte count, all parts are AVAILABLE and the asset is stitched and
\* AVAILABLE, whichever part number came last.
C6_OrderIndependent ==
    [][\A s \in UploadSlots :
        (/\ Answered(s)
         /\ uploads[s].asset_part.status = ST_NEW
         /\ \E a \in assets :
               /\ a.id = uploads[s].asset.id
               /\ a.status = ST_NEW
               /\ \A n \in BodyLens : a.filesize = a.parts * n
               /\ \A p \in PartsOf(assetParts', a) : p.status = ST_AVAILABLE
         /\ \A t \in UploadSlots :
               uploads'[t] # Idle => uploads'[t].asset.id # uploads[s].asset.id)
        => \E b \in assets' :
              /\ b.id = uploads[s].asset.id
              /\ b.status = ST_AVAILABLE
              /\ Exists(files', AssetPath(b.filename))
              /\ Len(files'[AssetPath(b.filename)]) = b.filesize]_vars

\* C7: an upload stitches exactly when its part number is the asset's part
\* count, and answers after the stitch: a 200 for the last part means that the
\* asset is stitched and AVAILABLE, and an upload of another part changes
\* neither the Asset rows nor the stitched file.
C7_StitchOnLastPart ==
    [][\A s \in UploadSlots :
        Answered(s) =>
        LET r == uploads[s]
            p == r.asset_part.part_no
            row == CHOOSE a \in assets : a.id = r.asset.id
            out == AssetPath(row.filename)
        IN /\ (p = row.parts /\ last'.status = 200)
              => /\ \E b \in assets' : b.id = row.id /\ b.status = ST_AVAILABLE
                 /\ Exists(files', out)
                 /\ Len(files'[out]) = row.filesize
                 /\ \A q \in 1..row.parts :
                        ~Exists(files', PartPath(row.filename, q))
           /\ (p = row.parts /\ last'.body # "written != length")
              => Exists(files', out)
           /\ p # row.parts
              => /\ assets' = assets
                 /\ Exists(files', out) <=> Exists(files, out)
                 /\ Exists(files, out) => files'[out] = files[out]]_vars

C7_Witness ==
    /\ last.op = "upload"
    /\ last.status = 200
    /\ \E a \in assets :
          /\ a.id = last.req.asset
          /\ a.parts = MaxParts
          /\ last.req.part = a.parts
          /\ a.status = ST_AVAILABLE
          /\ Exists(files, AssetPath(a.filename))

\* The bytes of the parts 1..k, part 1 first.
RECURSIVE Joined(_, _)
Joined(content, k) ==
    IF k = 0 THEN <<>> ELSE Joined(content, k - 1) \o content[k]

\* C8: a stitch that finds every part on disk, with sizes that add up to the
\* declared size, leaves the stitched file holding the parts' bytes in
\* ascending part order, of the declared size, no part file, and the asset
\* AVAILABLE.
C8_StitchCorrect ==
    [][\A s \in UploadSlots :
        Answered(s) =>
        LET r == uploads[s]
            p == r.asset_part.part_no
            f == r.asset.filename
            N == r.asset.parts
            wrote == r.asset_part.status # ST_AVAILABLE
            present(q) == (wrote /\ q = p) \/ Exists(files, PartPath(f, q))
            content == [q \in 1..N |->
                           IF wrote /\ q = p THEN Body(p, last'.req.n)
                           ELSE IF present(q) THEN files[PartPath(f, q)]
                           ELSE <<>>]
        IN (/\ p = N
            /\ last'.body # "written != length"
            /\ \A q \in 1..N : present(q)
            /\ Len(Joined(content, N)) = r.asset.filesize)
           => /\ Exists(files', AssetPath(f))
              /\ files'[AssetPath(f)] = Joined(content, N)
              /\ Len(files'[AssetPath(f)]) = r.asset.filesize
              /\ \A q \in 1..N : ~Exists(files', PartPath(f, q))
              /\ \E b \in assets' : b.id = r.asset.id /\ b.status = ST_AVAILABLE
              /\ last'.status = 200]_vars

C8_Witness ==
    /\ last.op = "upload"
    /\ last.status = 200
    /\ \E a \in assets :
          /\ a.id = last.req.asset
          /\ a.parts = MaxParts
          /\ last.req.part = a.parts
          /\ a.status = ST_AVAILABLE
          /\ Exists(files, AssetPath(a.filename))
          /\ files[AssetPath(a.filename)] = [i \in 1..MaxParts |-> i]
          /\ \A q \in 1..a.parts : ~Exists(files, PartPath(a.filename, q))

\* The sweep slot that takes this step by coming back from its call, if any.
Resumed(s) == sweeps[s] # Idle /\ sweeps'[s] # sweeps[s]

\* The step is the start of a sweep, and what that sweep selected.
Started ==
    \/ \E s \in SweepSlots : sweeps[s] = Idle /\ sweeps'[s] # Idle
    \/ sweeps' = sweeps /\ last'.op = "sweep" /\ last'.status # "calling"

StartedWith ==
    IF sweeps' = sweeps THEN last'.req.selected
    ELSE LET s == CHOOSE s \in SweepSlots : sweeps'[s] # sweeps[s]
         IN sweeps'[s].selected

\* The assets whose upload call fails in this step.
FailedBefore(s) == IF sweeps[s] = Idle THEN {} ELSE sweeps[s].failed

FailedAfter(s) ==
    IF sweeps'[s] = Idle THEN last'.body.failed ELSE sweeps'[s].failed

NewlyFailed ==
    IF \E s \in SweepSlots : sweeps'[s] # sweeps[s]
    THEN LET s == CHOOSE s \in SweepSlots : sweeps'[s] # sweeps[s]
         IN FailedAfter(s) \ FailedBefore(s)
    ELSE IF last'.op = "sweep" /\ last'.status # "calling"
         THEN last'.body.failed
         ELSE {}

\* C9: an upload call of a sweep that fails, a missing local file included,
\* leaves the asset as it was, so that an asset that was AVAILABLE with an
\* empty product URL still is, and no asset is ever FAILED; a call that succeeds leaves the asset UPLOADED
\* with the non-empty URL the call returned.
C9_SweepOutcome ==
    /\ [](\A a \in assets : a.status # ST_FAILED)
    /\ [][/\ \A a \in assets :
               a.id \in NewlyFailed
               => /\ a \in assets'
                  /\ (a.status = ST_AVAILABLE /\ a.google_product_url = "")
                     => \E b \in assets' : /\ b.id = a.id
                                           /\ b.status = ST_AVAILABLE
                                           /\ b.google_product_url = ""
          /\ \A s \in SweepSlots :
               (Resumed(s) /\ media' # media)
               => LET a == sweeps[s].rows[sweeps[s].pos]
                  IN \E b \in assets' :
                        /\ b.id = a.id
                        /\ b.status = ST_UPLOADED
                        /\ b.google_product_url =
                               ProductUrl(a.filename, media'[a.filename])
                        /\ b.google_product_url # ""]_vars

C9_Witness ==
    /\ last.op = "sweep"
    /\ last.status = "returned"
    /\ \E a \in assets :
          /\ a.id \in last.body.failed
          /\ Exists(files, AssetPath(a.filename))
          /\ a.status = ST_AVAILABLE
          /\ a.google_product_url = ""
    /\ \E a \in assets :
          /\ a.id \in last.body.failed
          /\ ~Exists(files, AssetPath(a.filename))
          /\ a.status = ST_AVAILABLE
          /\ a.google_product_url = ""
    /\ \E b \in assets :
          /\ b.id \in last.body.tried \ last.body.failed
          /\ b.status = ST_UPLOADED
          /\ b.google_product_url = ProductUrl(b.filename, media[b.filename])

\* C10: a sweep never ends with an error, and it attempts every asset that
\* was AVAILABLE when it started, wherever in its selection a call fails.
C10_SweepContained ==
    /\ [][Started => StartedWith = {a.id : a \in {x \in assets :
                                         x.status = ST_AVAILABLE}}]_vars
    /\ []((last.op = "sweep" /\ last.status # "calling")
          => /\ last.status = "returned"
             /\ last.body.tried = last.req.selected
             /\ last.body.failed \subseteq last.body.tried)

C10_Witness ==
    /\ last.op = "sweep"
    /\ last.status = "returned"
    /\ Cardinality(last.req.selected) = Len(Roll)
    /\ last.body.tried = last.req.selected
    /\ \E i \in last.body.failed : \E j \in last.body.failed :
          \E k \in last.body.tried \ last.body.failed : i < k /\ k < j

\* C12: create-asset for a file name whose row declares another part count
\* fails on the assertion (500, no upload URLs) and leaves the Asset row and
\* the AssetPart rows as they were.
C12_PartsChangeRejected ==
    [][(/\ Created
        /\ \E a \in assets : /\ a.filename = last'.req.name
                             /\ a.parts # last'.req.parts)
       => /\ last'.status = 500
          /\ last'.body = "parts changed"
          /\ assets' = assets
          /\ assetParts' = assetParts]_vars

C12_Witness ==
    /\ uuids = 2
    /\ last.op = "create"
    /\ last.status = 500
    /\ last.body = "parts changed"
    /\ last.req.parts = MaxParts
    /\ \E a \in assets : /\ a.filename = last.req.name
                         /\ a.parts = 1
                         /\ a.asset_id = UuidStr(1)
                         /\ Cardinality(PartsOf(assetParts, a)) = 1

\* The extension the protocol gives each supported file type.
ExtensionOf ==
    [t \in {"image/jpeg", "image/x-fujifilm-raf", "video/mp4"} |->
        IF t = "image/jpeg" THEN ".JPG"
        ELSE IF t = "video/mp4" THEN ".mp4" ELSE ".RAF"]

\* C13: a create-asset request that passes the part count assertion is
\* answered 200 exactly when its file type is one of the three supported ones
\* and 400 {"status": "oh god"} otherwise; a 200 carries one upload URL for
\* each part 1..parts, in order, with the part count, the extension of the
\* file type and the asset identifier returned as id, and original_upload is
\* the first of them.
C13_CreateResponse ==
    [][(/\ Created
        /\ \A a \in assets : a.filename = last'.req.name
                             => a.parts = last'.req.parts)
       => LET t == last'.req.filetype
              N == last'.req.parts
              urls == last'.body.upload_urls
          IN /\ last'.status = 200 <=> t \in DOMAIN ExtensionOf
             /\ t \notin DOMAIN ExtensionOf
                => /\ last'.status = 400
                   /\ last'.body = [status |-> "oh god"]
             /\ last'.status = 200
                => /\ Len(urls) = N
                   /\ \A i \in 1..N :
                        /\ urls[i].part_number = i
                        /\ urls[i].part_count = N
                        /\ urls[i].extension = ExtensionOf[t]
                        /\ urls[i].asset_id = last'.body.id
                   /\ last'.body.original_upload = urls[1]]_vars

\* The number a sequence of decimal digits denotes.
RECURSIVE Denotes(_)
Denotes(d) ==
    IF d = <<>> THEN 0
    ELSE 10 * Denotes(SubSeq(d, 1, Len(d) - 1)) + d[Len(d)]

\* C19: every device-code request inserts exactly one Device row, whatever
\* rows the client already has, with added = false; the user code stored and
\* returned is six decimal digits denoting a number in 100000..999999, and the
\* device code returned is the one stored.
C19_DeviceCode ==
    [][last'.op = "device_code"
       => \E d \in devices' :
            /\ d.id \notin {x.id : x \in devices}
            /\ devices' = devices \cup {d}
            /\ Cardinality(devices') = Cardinality(devices) + 1
            /\ d.client_id = last'.req.client_id
            /\ d.added = FALSE
            /\ Len(d.user_code) = 6
            /\ \A i \in 1..6 : d.user_code[i] \in 0..9
            /\ Denotes(d.user_code) \in 100000..999999
            /\ last'.status = 200
            /\ last'.body.user_code = d.user_code
            /\ last'.body.device_code = d.device_code]_vars

C19_Witness ==
    /\ last.op = "device_code"
    /\ Cardinality(devices) = 2
    /\ \A d \in devices : /\ d.client_id = last.req.client_id
                          /\ d.added = FALSE
    /\ \E d \in devices : /\ d.device_code = last.body.device_code
                          /\ d.user_code = last.body.user_code
                          /\ d.id = 2

\* C20: an approval for a user code that a Device row carries is answered
\* 200 {"status": "ok"} and leaves the row found for it with added = true; for
\* a user code no row carries it is answered 404 {"status": "not found"} and
\* changes no row.  No step sets added back to false or removes a row.
C20_AddDevice ==
    [][/\ last'.op = "add_device"
          => LET c == last'.req.user_code
                 found == {d \in devices : d.user_code = c}
             IN IF found # {}
                THEN LET d == CHOOSE d \in found : \A x \in found : d.id <= x.id
                     IN /\ last'.status = 200
                        /\ last'.body = [status |-> "ok"]
                        /\ [d EXCEPT !.added = TRUE] \in devices'
                        /\ devices' \ {[d EXCEPT !.added = TRUE]}
                              = devices \ {d}
                ELSE /\ last'.status = 404
                     /\ last'.body = [status |-> "not found"]
                     /\ devices' = devices
       /\ \A d \in devices :
            \E e \in devices' : /\ e.id = d.id
                                /\ d.added => e.added]_vars

C20_Witness ==
    /\ last.op = "add_device"
    /\ last.status = 200
    /\ \E d \in devices : \E e \in devices :
          /\ d.id < e.id
          /\ d.user_code = last.req.user_code
          /\ e.user_code = last.req.user_code
          /\ d.added
          /\ ~e.added

\* The WebSocket session has just handled one more result of ws.recv.
Received == socket.pc = "recv" /\ Len(socket'.log) = Len(socket.log) + 1

Latest == socket'.log[Len(socket'.log)]

\* C14: when the message loop of an authorized session ends, on a receive
\* timeout, a connection error or a reply that cannot be sent, the handler
\* attempts a close with code 1000 and reason "Normal closure" before it
\* returns.
C14_CloseOnLoopExit ==
    [][(socket.pc = "recv" /\ socket'.pc \in Terminal)
       => \E i \in DOMAIN socket'.closes :
             /\ socket'.closes[i].code = 1000
             /\ socket'.closes[i].reason = "Normal closure"]_vars

\* C15: on a connection without an Authorization parameter that starts with
\* "Bearer " the handler does one thing, a close with code 403 and reason
\* "Unauthorized": no message is received, no reply sent, no other close made.
C15_UnauthorizedOnlyCloses ==
    (/\ socket.pc # "none"
     /\ \/ Len(socket.auth) < 2
        \/ socket.auth[1] # "Bearer"
        \/ socket.auth[2] # " ")
    => /\ socket.pc = "returned"
       /\ Len(socket.closes) = 1
       /\ socket.closes[1].code = 403
       /\ socket.closes[1].reason = "Unauthorized"
       /\ socket.log = <<>>
       /\ socket.sent = <<>>

\* The messages the protocol answers: a join of a devices: topic, a heartbeat
\* on the topic phoenix.
JoinsDevices(m) ==
    /\ m.type = "object"
    /\ {"event", "topic"} \subseteq DOMAIN m.data
    /\ m.data.event = "phx_join"
    /\ Len(m.data.topic) >= 2
    /\ m.data.topic[1] = "devices"
    /\ m.data.topic[2] = ":"

BeatsPhoenix(m) ==
    /\ m.type = "object"
    /\ {"event", "topic"} \subseteq DOMAIN m.data
    /\ m.data.event = "heartbeat"
    /\ m.data.topic = <<"phoenix">>

Answerable(e) ==
    e.recv = "message" /\ (JoinsDevices(e.message) \/ BeatsPhoenix(e.message))

\* C16: in an authorized session the replies sent are, in the order of
\* arrival, one phx_reply with status "ok" and an empty response for each join
\* of a devices: topic, with the ref and the topic of the join, and for each
\* heartbeat on phoenix, with its ref and the topic phoenix; while the session
\* is open every one of them went out.
C16_RepliesMatch ==
    socket.pc \in {"recv"} \cup Terminal
    => LET asked == SelectSeq(socket.log, Answerable)
       IN /\ Len(socket.sent) = Len(asked)
          /\ \A i \in 1..Len(asked) :
                LET m == asked[i].message
                    r == socket.sent[i].reply
                IN /\ r.event = "phx_reply"
                   /\ r.payload = [response |-> <<>>, status |-> "ok"]
                   /\ "ref" \in DOMAIN m.data => r.ref = m.data.ref
                   /\ r.topic = IF JoinsDevices(m) THEN m.data.topic
                                ELSE <<"phoenix">>
          /\ socket.pc = "recv"
             => \A i \in 1..Len(socket.sent) : ~socket.sent[i].raised

C16_Witness ==
    /\ socket.pc = "recv"
    /\ Len(socket.log) = 2
    /\ JoinsDevices(socket.log[1].message)
    /\ BeatsPhoenix(socket.log[2].message)
    /\ Len(socket.sent) = 2
    /\ socket.sent[1].reply.ref = "1"
    /\ socket.sent[1].reply.topic = DevicesTopic
    /\ socket.sent[2].reply.ref = "4"
    /\ socket.sent[2].reply.topic = <<"phoenix">>

\* C17: a receive that times out ends the message loop and the handler
\* returns; a session that has ended handles and answers nothing more.
C17_TimeoutEndsSession ==
    /\ [][(Received /\ Latest.recv = "timeout")
          => socket'.pc = "returned"]_vars
    /\ [][socket.pc \in Terminal => socket' = socket]_vars

\* C18: a status_updated message, a message with another named event (a join
\* of a topic outside devices: and a heartbeat off phoenix included) and a
\* message that is no JSON get no reply and leave the session open.
C18_IgnoredMessages ==
    [][(/\ Received
        /\ Latest.recv = "message"
        /\ \/ Latest.message.type = "text"
           \/ /\ Latest.message.type = "object"
              /\ "event" \in DOMAIN Latest.message.data
              /\ Latest.message.data.event # ""
              /\ ~JoinsDevices(Latest.message)
              /\ ~BeatsPhoenix(Latest.message))
       => /\ socket'.sent = socket.sent
          /\ socket'.closes = socket.closes
          /\ socket'.connection_open
          /\ socket'.pc = "recv"]_vars

C18_Witness ==
    /\ socket.pc = "recv"
    /\ Len(socket.log) = 2
    /\ socket.log[1].message.type = "object"
    /\ "event" \in DOMAIN socket.log[1].message.data
    /\ socket.log[1].message.data.event = "status_updated"
    /\ BeatsPhoenix(socket.log[2].message)
    /\ Len(socket.sent) = 1
    /\ socket.sent[1].reply.ref = "4"
    /\ ~socket.sent[1].raised

C21_TokenUngated ==
    [][last'.op = "auth_token"
        => /\ last'.status = 200
           /\ last'.body = TokenBody
           /\ last'.body.expires_in = 28800
           /\ last'.body.token_type = "bearer"
           /\ devices' = devices]_vars

\* A token was handed out for the code of a device that is not approved,
\* while another device is.
C21_Witness ==
    /\ last.op = "auth_token"
    /\ last.status = 200
    /\ \E d \in devices : d.device_code = last.req.device_code /\ ~d.added
    /\ \E d \in devices : d.added

\* C22: with K Asset rows, M Device rows and at most one Album row, the status
\* endpoint reports count K with K serialized assets, count M with M
\* serialized devices and an album exactly when an Album row exists, and it
\* changes no row.
C22_StatusAggregate ==
    [][(last'.op = "status" /\ Cardinality(albums) <= 1)
        => /\ last'.status = 200
           /\ last'.body.assets.count = Cardinality(assets)
           /\ Len(last'.body.assets.results) = Cardinality(assets)
           /\ {last'.body.assets.results[i] :
                    i \in 1..Len(last'.body.assets.results)} = assets
           /\ last'.body.devices.count = Cardinality(devices)
           /\ Len(last'.body.devices.results) = Cardinality(devices)
           /\ {last'.body.devices.results[i] :
                    i \in 1..Len(last'.body.devices.results)} = devices
           /\ (last'.body.album # <<>>) <=> (albums # {})
           /\ albums # {} => last'.body.album[1] \in albums
           /\ <<assets, assetParts, devices, albums>>' =
                    <<assets, assetParts, devices, albums>>]_vars

\* The status was served with two assets, two devices and the album in store.
C22_Witness ==
    /\ last.op = "status"
    /\ Cardinality(assets) = 2
    /\ Cardinality(devices) = 2
    /\ Cardinality(albums) = 1
    /\ last.body.assets.count = 2
    /\ last.body.album # <<>>

\* C23: in every reachable state an Asset in status AVAILABLE or UPLOADED has
\* its stitched file on disk, of the declared size.
C23_StitchedFileKept ==
    \A a \in assets :
        a.status \in {ST_AVAILABLE, ST_UPLOADED}
        => /\ Exists(files, AssetPath(a.filename))
           /\ Len(files[AssetPath(a.filename)]) = a.filesize

\* C24: the session asset identifier stored for an asset is the one the most
\* recent successful create-asset call for its file name returned: such a call
\* stores the identifier it returns, and no step of a chunk upload or of an
\* upload sweep changes the identifier of a row.
C24_SessionIdCurrent ==
    [][/\ (Created /\ last'.status = 200)
            => \E a \in assets' : /\ a.filename = last'.req.name
                                  /\ a.asset_id = last'.body.id
       /\ ~Created
            => \A a \in assets : \A b \in assets' :
                    a.id = b.id => b.asset_id = a.asset_id]_vars

\* C25: the status of an Asset only advances, NEW to AVAILABLE to UPLOADED:
\* no step takes an UPLOADED asset back to AVAILABLE or NEW or an AVAILABLE
\* asset back to NEW, and no Asset or AssetPart is ever in status FAILED.
C25_StatusAdvances ==
    /\ [][\A a \in assets : \A b \in assets' :
            a.id = b.id => b.status >= a.status]_vars
    /\ [](/\ \A a \in assets : a.status # ST_FAILED
          /\ \A ap \in assetParts : ap.status # ST_FAILED)

\* C26: upload_photo completes successfully at most once for each Asset row
\* (there is one row for a file name, and media counts the media items that
\* Google Photos created for it).
C26_DeliveredOnce ==
    \A a \in assets : media[a.filename] <= 1

\* C27: in every reachable state an Asset in status AVAILABLE or UPLOADED has
\* all of its AssetPart rows in status AVAILABLE.
C27_StitchedPartsAvailable ==
    \A a \in assets :
        a.status \in {ST_AVAILABLE, ST_UPLOADED}
        => \A ap \in PartsOf(assetParts, a) : ap.status = ST_AVAILABLE

\* C28: a create-asset request that is not answered 200 (unknown filetype,
\* no parts, changed parts) leaves the Asset and AssetPart tables as they
\* were, rows and fields.
C28_FailedCreatePersistsNothing ==
    [][(Created /\ last'.status # 200)
        => /\ assets' = assets
           /\ assetParts' = assetParts]_vars

\* C29: a create-asset call for a known file name with the same parts changes
\* the session asset identifier of the row and nothing else, whatever type
\* and size it declares: the other fields, the AssetPart rows and the files
\* stay; and an upload that finds its part AVAILABLE does not write the part
\* file or the part row again.
C29_ReconnectFrame ==
    [][/\ \A a \in assets :
            (/\ Created
             /\ last'.req.name = a.filename
             /\ last'.req.parts = a.parts)
            => /\ assets' = (assets \ {a}) \cup
                        {[a EXCEPT !.asset_id = UuidStr(uuids')]}
               /\ assetParts' = assetParts
               /\ files' = files
       /\ \A s \in UploadSlots :
            (Answered(s) /\ uploads[s].asset_part.status = ST_AVAILABLE)
            => LET path == PartPath(uploads[s].asset.filename,
                                    uploads[s].asset_part.part_no)
               IN /\ assetParts' = assetParts
                  /\ Exists(files', path)
                        => Exists(files, path) /\ files'[path] = files[path]]_vars

\* After a reconnect, part 1 of 2, which is AVAILABLE with its file on disk,
\* is being uploaded under the new identifier: the handler has found the part
\* AVAILABLE and reads the body only to discard it.
C29_Witness ==
    /\ uuids = 2
    /\ uploads[1].pc = "read"
    /\ uploads[1].asset.asset_id = UuidStr(2)
    /\ uploads[1].asset.parts = 2
    /\ uploads[1].asset_part.part_no = 1
    /\ uploads[1].asset_part.status = ST_AVAILABLE
    /\ Exists(files, PartPath(Shot, 1))
    /\ \E a \in assets : /\ a.id = uploads[1].asset.id
                         /\ a.asset_id = UuidStr(2)
                         /\ a.status = ST_NEW

\* C30: a part becomes AVAILABLE only in the answer to a chunk upload of that
\* part whose written byte count equals the declared content length; an
\* upload that finds its part not AVAILABLE and whose counts differ fails:
\* it is not answered 200, it leaves every part row and every asset row as it
\* was, and it does not stitch, even for the last part.
C30_LengthChecked ==
    [][/\ \A ap \in assetParts : \A bp \in assetParts' :
            (/\ ap.id = bp.id
             /\ ap.status # ST_AVAILABLE
             /\ bp.status = ST_AVAILABLE)
            => \E s \in UploadSlots :
                    /\ Answered(s)
                    /\ uploads[s].asset_part.id = ap.id
                    /\ last'.req.n = DeclaredLength
       /\ \A s \in UploadSlots :
            (/\ Answered(s)
             /\ uploads[s].asset_part.status # ST_AVAILABLE
             /\ last'.req.n # DeclaredLength)
            => LET out == AssetPath(uploads[s].asset.filename)
               IN /\ last'.status # 200
                  /\ assetParts' = assetParts
                  /\ assets' = assets
                  /\ Exists(files', out) <=> Exists(files, out)
                  /\ Exists(files, out) => files'[out] = files[out]]_vars

\* The last part of a picture arrived with more bytes than declared: the
\* request failed, its part file is on disk, the part is NEW and the asset is
\* not stitched although every part file is there.
C30_Witness ==
    /\ last.op = "upload"
    /\ last.status = 500
    /\ "n" \in DOMAIN last.req
    /\ last.req.n # DeclaredLength
    /\ \E a \in assets :
            /\ a.id = last.req.asset
            /\ last.req.part = a.parts
            /\ a.status = ST_NEW
            /\ \A p \in 1..a.parts : Exists(files, PartPath(a.filename, p))
            /\ \E ap \in PartsOf(assetParts, a) :
                    ap.part_no = a.parts /\ ap.status = ST_NEW

\* Some AssetPart row has the part number and belongs to an Asset that
\* carries the session asset identifier.
Matches(asset_id, part) ==
    \E ap \in assetParts : \E a \in assets :
        ap.part_no = part /\ a.id = ap.asset /\ a.asset_id = asset_id

\* C31: a chunk upload whose identifier and part number match no AssetPart row
\* (an identifier never issued, or one a later create-asset replaced) fails
\* not found: it is not answered 200, no upload proceeds to the body, no file
\* is written, nothing is stitched and no row changes; and an upload that
\* does proceed matched a row.
C31_LookupMiss ==
    [][/\ \A asset_id \in Uuids : \A part \in 1..MaxParts :
            (/\ ~Matches(asset_id, part)
             /\ last'.op = "upload"
             /\ last'.req = [asset_id |-> asset_id, part |-> part])
            => /\ last'.status = 500
               /\ last'.body = "DoesNotExist"
               /\ <<assets, assetParts, files, uploads>>' =
                        <<assets, assetParts, files, uploads>>
       /\ \A s \in UploadSlots :
            (uploads[s] = Idle /\ uploads'[s] # Idle)
            => Matches(uploads'[s].asset.asset_id,
                       uploads'[s].asset_part.part_no)]_vars

\* An upload under the first identifier was refused after a reconnect had
\* replaced it on the row, whose part of that number is there.
C31_Witness ==
    /\ last.op = "upload"
    /\ last.status = 500
    /\ DOMAIN last.req = {"asset_id", "part"}
    /\ last.req.asset_id = UuidStr(1)
    /\ uuids = 2
    /\ \E a \in assets :
            /\ a.asset_id = UuidStr(2)
            /\ \E ap \in PartsOf(assetParts, a) : ap.part_no = last.req.part

\* C32: in every reachable state the product URL of an Asset in status NEW or
\* AVAILABLE is empty, and no step takes a product URL away from an Asset
\* that has one.
C32_ProductUrlKept ==
    /\ [](\A a \in assets :
            a.status \in {ST_NEW, ST_AVAILABLE} => a.google_product_url = "")
    /\ [][\A a \in assets : \A b \in assets' :
            (a.id = b.id /\ a.google_product_url # "")
            => b.google_product_url # ""]_vars

\* A step of get_credentials: its record is new.
Acquired ==
    /\ last'.op = "get_credentials"
    /\ last.op = "get_credentials"
            => <<last.req, last.status, last.body>>
                    # <<last'.req, last'.status, last'.body>>

\* C33: get_credentials uses a saved token that is valid as it is; a saved
\* token that is invalid and carries a refresh token is refreshed and never
\* sent through the interactive flow; the interactive flow runs only when the
\* token file holds no refresh token; and whenever credentials are returned
\* the token file holds exactly them.
C33_CredentialPaths ==
    [][Acquired
       => /\ (token_file # <<>> /\ Valid(token_file[1]))
                => (last'.body.path = "saved" /\ last'.body.creds = token_file)
          /\ (token_file # <<>> /\ ~Valid(token_file[1])
                /\ token_file[1].refresh_token # 0)
                => last'.body.path = "refresh"
          /\ last'.body.path = "flow"
                => (token_file = <<>> \/ token_file[1].refresh_token = 0)
          /\ last'.body.creds # <<>> => token_file' = last'.body.creds]_vars

\* The batch-create of the latest upload_photo came back with status 200 and
\* the status message "Success" for its first result.
Created200Success(p) ==
    /\ Len(p.sent) = 2
    /\ p.sent[2].url = "/v1/mediaItems:batchCreate"
    /\ p.sent[2].status = 200
    /\ p.sent[2].message = "Success"

\* C34: when upload_photo comes back to a sweep, a batch-create request was
\* sent only as the second request, after a raw upload that returned 200; a
\* product URL is returned only if the batch-create returned 200 with the
\* status message "Success"; in every other case the call raises, returns no
\* URL, and the row of the asset the sweep called it for is left as it was,
\* AVAILABLE if it was AVAILABLE.
C34_UploadPhoto ==
    [][\A s \in SweepSlots : Resumed(s) =>
        LET asset == sweeps[s].rows[sweeps[s].pos]
            p == photo'
        IN /\ p.sent # <<>>
           /\ \A i \in DOMAIN p.sent :
                /\ p.sent[i].file = asset.filename
                /\ p.sent[i].url = "/v1/mediaItems:batchCreate"
                    => /\ i = 2
                       /\ p.sent[1].url = "/v1/uploads"
                       /\ p.sent[1].status = 200
           /\ p.returned # <<>> => (Created200Success(p) /\ p.raised = "")
           /\ ~Created200Success(p)
                => /\ p.raised # ""
                   /\ p.returned = <<>>
                   /\ \A a \in assets : a.id = asset.id =>
                        /\ a \in assets'
                        /\ a.status = ST_AVAILABLE
                            => \E b \in assets' :
                                 b.id = a.id /\ b.status = ST_AVAILABLE]_vars

\* upload_photo raised on a batch-create that returned 200 with another
\* message than "Success", and the asset is still AVAILABLE.
C34_Witness ==
    /\ photo.returned = <<>>
    /\ photo.raised = "AssertionError"
    /\ Len(photo.sent) = 2
    /\ photo.sent[1].status = 200
    /\ photo.sent[2].status = 200
    /\ photo.sent[2].message = "SUCCESS"
    /\ \E a \in assets :
         /\ a.filename = photo.sent[2].file
         /\ a.status = ST_AVAILABLE
         /\ a.google_product_url = ""
    /\ last.op = "upload_photo"
    /\ last.status = "failed"

====
